---- MODULE Spec2Model ----
(***************************************************************************)
(* A model of the nushell plugin `port scan` (nu_plugin_port_scan).        *)
(*                                                                         *)
(*   src/src/port_scan.rs  PortScan::run / scan / check_connection         *)
(*   src/src/main.rs       Plugin::run / check_connection (earlier entry)  *)
(*                                                                         *)
(* One invocation of the command is one behaviour: the call's arguments    *)
(* are chosen in Init, the handler runs step by step, and every blocking   *)
(* socket call (connect_timeout, write_all, read) is one action whose      *)
(* outcome the network chooses.                                            *)
(*                                                                         *)
(* Numbers.  The program's durations and counts are i64 / u64 / u128       *)
(* values.  They are kept at their width as little-endian sequences of     *)
(* 16-bit limbs (4 limbs = 64 bits, 8 limbs = 128 bits).                   *)
(* Strings.  A host string is a sequence of one-character strings; a       *)
(* payload string is a sequence of Unicode code points.                    *)
(***************************************************************************)
EXTENDS Integers, Sequences, FiniteSets, TLC

----------------------------------------------------------------------------
(* Fixed-width arithmetic on limb sequences.                               *)

Base == 2^16

Zero(n) == [i \in 1..n |-> 0]

\* The natural k (k < Base^2) as an n-limb number.
Lift(k, n) ==
  [i \in 1..n |-> IF i = 1 THEN k % Base ELSE IF i = 2 THEN k \div Base ELSE 0]

\* a + b modulo Base^Len(a)  (wrapping_add)
Add(a, b) ==
  LET n == Len(a)
      carry[i \in 0..n] ==
        IF i = 0 THEN 0 ELSE (a[i] + b[i] + carry[i-1]) \div Base
  IN  [i \in 1..n |-> (a[i] + b[i] + carry[i-1]) % Base]

\* a - b modulo Base^Len(a)  (wrapping_sub)
Sub(a, b) ==
  LET n == Len(a)
      borrow[i \in 0..n] ==
        IF i = 0 THEN 0 ELSE IF a[i] - b[i] - borrow[i-1] < 0 THEN 1 ELSE 0
  IN  [i \in 1..n |-> (a[i] - b[i] - borrow[i-1] + Base) % Base]

\* a < b, as unsigned numbers of the same width
Lt(a, b) ==
  \E i \in 1..Len(a) :
    /\ a[i] < b[i]
    /\ \A j \in (i+1)..Len(a) : a[j] = b[j]

Le(a, b) == a = b \/ Lt(a, b)

\* a * k + d modulo Base^Len(a), for small k and d
MulAdd(a, k, d) ==
  LET n == Len(a)
      carry[i \in 0..n] ==
        IF i = 0 THEN d ELSE (a[i] * k + carry[i-1]) \div Base
  IN  [i \in 1..n |-> (a[i] * k + carry[i-1]) % Base]

\* The n-limb number written in decimal digits ds (most significant first).
RECURSIVE FromDecimal(_, _)
FromDecimal(ds, n) ==
  IF ds = <<>> THEN Zero(n)
  ELSE MulAdd(FromDecimal(SubSeq(ds, 1, Len(ds) - 1), n), 10, ds[Len(ds)])

\* Zero-extension (u64 -> u128).
Widen(a, n) == [i \in 1..n |-> IF i <= Len(a) THEN a[i] ELSE 0]

\* i64 and u64 are 4 limbs, u128 is 8 limbs.
W64 == 64 \div 16
W128 == 128 \div 16

\* The i64 with the small value k (two's complement).
I64(k) == IF k >= 0 THEN Lift(k, W64) ELSE Sub(Zero(W64), Lift(-k, W64))

I64_MIN == <<0, 0, 0, 2^15>>

\* i64::is_negative: the sign bit.
is_negative(x) == x[W64] >= 2^15

\* i64::wrapping_neg: 0 - x modulo 2^64.
wrapping_neg(x) == Sub(Zero(W64), x)

\* i64::wrapping_abs
wrapping_abs(x) == IF is_negative(x) THEN wrapping_neg(x) ELSE x

\* The conversion `x as u64` of an i64: the same 64 bits.
AsU64(x) == x

\* i64::unsigned_abs: `self.wrapping_abs() as u64`.
unsigned_abs(x) == AsU64(wrapping_abs(x))

----------------------------------------------------------------------------
(* Options.                                                                *)

None == [some |-> FALSE]
Some(v) == [some |-> TRUE, val |-> v]

----------------------------------------------------------------------------
(* Strings and the standard library's address parser and formatter.        *)

HexLower == <<"0","1","2","3","4","5","6","7","8","9","a","b","c","d","e","f">>
HexUpper == <<"0","1","2","3","4","5","6","7","8","9","A","B","C","D","E","F">>

\* char::to_digit(radix): the digit's value, or -1 for None.
to_digit(c, radix) ==
  LET hits == {i \in 1..16 : HexLower[i] = c \/ HexUpper[i] = c}
      v == IF hits = {} THEN -1 ELSE (CHOOSE i \in hits : TRUE) - 1
  IN  IF v < radix THEN v ELSE -1

\* The segments of s between the occurrences of the character sep.
RECURSIVE Split(_, _)
Split(s, sep) ==
  IF \A i \in 1..Len(s) : s[i] /= sep THEN <<s>>
  ELSE LET k == CHOOSE i \in 1..Len(s) :
                  s[i] = sep /\ \A j \in 1..(i-1) : s[j] /= sep
       IN  <<SubSeq(s, 1, k - 1)>> \o Split(SubSeq(s, k + 1, Len(s)), sep)

\* The value of the digit string s in the radix, -1 when a character is
\* no digit or the value exceeds limit (checked arithmetic).
RECURSIVE NumVal(_, _, _)
NumVal(s, radix, limit) ==
  IF s = <<>> THEN 0
  ELSE LET hi == NumVal(SubSeq(s, 1, Len(s) - 1), radix, limit)
           d  == to_digit(s[Len(s)], radix)
       IN  IF hi < 0 \/ d < 0 THEN -1
           ELSE IF hi > (limit - d) \div radix THEN -1
           ELSE hi * radix + d

\* Parser::read_number on a whole segment: -1 for None.  max_digits = 0
\* stands for None (no limit on the number of digits).
read_number(s, radix, max_digits, allow_zero_prefix, limit) ==
  IF Len(s) = 0 THEN -1
  ELSE IF max_digits > 0 /\ Len(s) > max_digits THEN -1
  ELSE IF ~allow_zero_prefix /\ s[1] = "0" /\ Len(s) > 1 THEN -1
  ELSE NumVal(s, radix, limit)

\* Parser::read_ipv4_addr on a whole segment: four octets, or None.
read_ipv4_addr(s) ==
  LET segs == Split(s, ".")
      oct(i) == read_number(segs[i], 10, 3, FALSE, 255)
  IN  IF Len(segs) = 4 /\ \A i \in 1..4 : oct(i) >= 0
      THEN Some([i \in 1..4 |-> oct(i)])
      ELSE None

\* One run of groups of an IPv6 address ("a:b:c", the last one possibly an
\* embedded IPv4 address when ipv4_ok): the 16-bit groups, or None.
read_groups(s, ipv4_ok) ==
  IF s = <<>> THEN Some(<<>>)
  ELSE
    LET segs == Split(s, ":")
        n    == Len(segs)
        hex(i) == read_number(segs[i], 16, 4, TRUE, 65535)
        v4   == IF ipv4_ok THEN read_ipv4_addr(segs[n]) ELSE None
        lead == IF v4.some THEN n - 1 ELSE n
    IN  IF \A i \in 1..lead : hex(i) >= 0
        THEN Some([i \in 1..lead |-> hex(i)] \o
                  (IF v4.some
                   THEN <<v4.val[1] * 256 + v4.val[2], v4.val[3] * 256 + v4.val[4]>>
                   ELSE <<>>))
        ELSE None

\* Parser::read_ipv6_addr on a whole segment: eight groups, or None.
read_ipv6_addr(s) ==
  LET gaps == {i \in 1..(Len(s) - 1) : s[i] = ":" /\ s[i+1] = ":"}
  IN  IF gaps = {}
      THEN LET g == read_groups(s, TRUE)
           IN  IF g.some /\ Len(g.val) = 8 THEN g ELSE None
      ELSE LET k    == CHOOSE i \in gaps : \A j \in gaps : i <= j
               head == read_groups(SubSeq(s, 1, k - 1), FALSE)
               tail == read_groups(SubSeq(s, k + 2, Len(s)), TRUE)
           IN  IF head.some /\ tail.some /\ Len(head.val) + Len(tail.val) <= 7
               THEN Some(head.val \o
                         [i \in 1..(8 - Len(head.val) - Len(tail.val)) |-> 0] \o
                         tail.val)
               ELSE None

\* s without its leading "0" characters (at least one character is kept).
RECURSIVE StripZeros(_)
StripZeros(s) ==
  IF Len(s) > 1 /\ s[1] = "0" THEN StripZeros(Tail(s)) ELSE s

\* The scope id after '%' (read_number(10, None, true) into a u32): its
\* decimal digits without leading zeros, or None.
read_scope_id(s) ==
  LET t == StripZeros(s)
      v == FromDecimal([i \in 1..Len(t) |-> to_digit(t[i], 10)], W64)
  IN  IF Len(s) = 0 \/ \E i \in 1..Len(s) : to_digit(s[i], 10) < 0 THEN None
      ELSE IF Len(t) > 10 \/ v[3] /= 0 \/ v[4] /= 0 THEN None
      ELSE Some(t)

\* Parser::read_port after the ':': a u16, or -1.
read_port(s) == read_number(s, 10, 0, TRUE, 65535)

NoAddr == [kind |-> "None"]

\* Parser::read_socket_addr_v4: "a.b.c.d:port"
read_socket_addr_v4(s) ==
  LET segs == Split(s, ":")
      ip   == read_ipv4_addr(segs[1])
  IN  IF Len(segs) = 2 /\ ip.some /\ read_port(segs[2]) >= 0
      THEN [kind |-> "V4", ip |-> ip.val, port |-> read_port(segs[2])]
      ELSE NoAddr

\* Parser::read_socket_addr_v6: "[groups]:port" or "[groups%scope]:port"
read_socket_addr_v6(s) ==
  LET closes == {i \in 1..Len(s) : s[i] = "]"}
      k      == CHOOSE i \in closes : \A j \in closes : i <= j
      inner  == Split(SubSeq(s, 2, k - 1), "%")
      ip     == read_ipv6_addr(inner[1])
      scope  == IF Len(inner) = 1 THEN Some(<<"0">>)
                ELSE IF Len(inner) = 2 THEN read_scope_id(inner[2])
                ELSE None
      rest   == SubSeq(s, k + 1, Len(s))
  IN  IF /\ Len(s) > 0 /\ s[1] = "[" /\ closes /= {}
         /\ ip.some /\ scope.some
         /\ Len(rest) > 0 /\ rest[1] = ":" /\ read_port(Tail(rest)) >= 0
      THEN [kind |-> "V6", ip |-> ip.val, scope |-> scope.val,
            port |-> read_port(Tail(rest))]
      ELSE NoAddr

\* <SocketAddr as FromStr>::from_str: V4, else V6, the whole string consumed.
parse_SocketAddr(s) ==
  IF read_socket_addr_v4(s).kind = "V4" THEN read_socket_addr_v4(s)
  ELSE read_socket_addr_v6(s)

\* <IpAddr as FromStr>::from_str succeeds: s is a literal IP address.
parse_IpAddr_ok(s) == read_ipv4_addr(s).some \/ read_ipv6_addr(s).some

\* Display of a non-negative integer in the radix (lower case digits).
RECURSIVE NatToString(_, _)
NatToString(n, radix) ==
  IF n < radix THEN <<HexLower[n + 1]>>
  ELSE NatToString(n \div radix, radix) \o <<HexLower[(n % radix) + 1]>>

\* a divided by the small k: <<quotient, remainder>>.
DivMod(a, k) ==
  LET n == Len(a)
      rem[i \in 1..(n + 1)] ==
        IF i = n + 1 THEN 0 ELSE (rem[i+1] * Base + a[i]) % k
  IN  <<[i \in 1..n |-> (rem[i+1] * Base + a[i]) \div k], rem[1]>>

\* Display of an unsigned integer (u64 or u128) in decimal.
RECURSIVE UIntToString(_)
UIntToString(a) ==
  LET qr == DivMod(a, 10)
  IN  IF qr[1] = Zero(Len(a)) THEN <<HexLower[qr[2] + 1]>>
      ELSE UIntToString(qr[1]) \o <<HexLower[qr[2] + 1]>>

\* Display of an i64: format!("{}", n).
IntToString(x) ==
  IF is_negative(x) THEN <<"-">> \o UIntToString(unsigned_abs(x))
  ELSE UIntToString(x)

\* Joins the strings of ss with the separator string sep.
RECURSIVE Join(_, _)
Join(ss, sep) ==
  IF ss = <<>> THEN <<>>
  ELSE IF Len(ss) = 1 THEN ss[1]
  ELSE ss[1] \o sep \o Join(Tail(ss), sep)

\* Display of Ipv4Addr
Ipv4ToString(ip) == Join([i \in 1..4 |-> NatToString(ip[i], 10)], <<".">>)

\* Display of Ipv6Addr: "::ffff:a.b.c.d" for an IPv4-mapped address, else
\* lower-case groups with the first longest run of two or more zero groups
\* written "::".
Ipv6ToString(g) ==
  LET hexs(i, j) == Join([x \in 1..(j - i + 1) |-> NatToString(g[i + x - 1], 16)], <<":">>)
      runlen(i) == CHOOSE n \in 0..(9 - i) :
                      /\ \A x \in i..(i + n - 1) : g[x] = 0
                      /\ (i + n = 9 \/ g[i + n] /= 0)
      best  == CHOOSE i \in 1..8 :
                 /\ \A j \in 1..8 : runlen(j) <= runlen(i)
                 /\ \A j \in 1..(i - 1) : runlen(j) < runlen(i)
  IN  IF (\A i \in 1..5 : g[i] = 0) /\ g[6] = 65535
      THEN <<":", ":", "f", "f", "f", "f", ":">> \o
           Ipv4ToString(<<g[7] \div 256, g[7] % 256, g[8] \div 256, g[8] % 256>>)
      ELSE IF runlen(best) > 1
      THEN hexs(1, best - 1) \o <<":", ":">> \o hexs(best + runlen(best), 8)
      ELSE hexs(1, 8)

\* Display of SocketAddr
SocketAddrToString(a) ==
  IF a.kind = "V4" THEN Ipv4ToString(a.ip) \o <<":">> \o NatToString(a.port, 10)
  ELSE <<"[">> \o Ipv6ToString(a.ip) \o
       (IF a.scope = <<"0">> THEN <<>> ELSE <<"%">> \o a.scope) \o
       <<"]", ":">> \o NatToString(a.port, 10)

----------------------------------------------------------------------------
(* nu_protocol values and the evaluated call.                              *)

Value_String(v)   == [type |-> "String", val |-> v]
Value_Int(v)      == [type |-> "Int", val |-> v]
Value_Duration(v) == [type |-> "Duration", val |-> v]

\* EvaluatedCall::req(i): the i-th positional argument (from 0), or None.
req(c, i) == IF i + 1 <= Len(c.positional) THEN Some(c.positional[i + 1]) ELSE None

\* EvaluatedCall::get_flag_value(name): Option<Value>
get_flag_value(c, name) == c.named[name]

\* Value::as_duration / as_str / as_int: None stands for Err.
as_duration(v) == IF v.type = "Duration" THEN Some(v.val) ELSE None
as_str(v)      == IF v.type = "String" THEN Some(v.val) ELSE None
as_int(v)      == IF v.type = "Int" THEN Some(v.val) ELSE None

\* const DEFAULT_TIMEOUT: i64 = 60000000000;
DEFAULT_TIMEOUT == FromDecimal(<<6, 0, 0, 0, 0, 0, 0, 0, 0, 0, 0>>, W64)

----------------------------------------------------------------------------
(* The arguments a call is made with.                                      *)

\* The most bytes the peer delivers on one connection.
MaxPeerBytes == 2

Hosts ==
  { <<"1","2","7",".","0",".","0",".","1">>,
    <<":",":","1">>,
    <<"[",":",":","1","]">>,
    <<"e","x","a","m","p","l","e",".","c","o","m">>,
    <<"l","o","c","a","l","h","o","s","t">>,
    <<"0","1","0",".","0",".","0",".","1">> }

Ports == { I64(0), I64(80), I64(65535), I64(65536), I64(-1) }

Positionals ==
  { <<Value_String(h), Value_Int(p)>> : h \in Hosts, p \in Ports }
    \cup { <<>>,
           <<Value_String(<<"1","2","7",".","0",".","0",".","1">>)>>,
           <<Value_Int(I64(127)), Value_Int(I64(80))>>,
           <<Value_String(<<"1","2","7",".","0",".","0",".","1">>), Value_String(<<"8","0">>)>> }

Timeouts ==
  { None, Some(Value_Duration(I64(0))), Some(Value_Duration(I64(3))), Some(Value_Duration(I64(-3))),
    Some(Value_Duration(I64_MIN)), Some(Value_Int(I64(3))) }

\* Payload strings, as code points: "", "Hi", U+00E9, "a" U+0100.
Payloads == { <<>>, <<72, 105>>, <<233>>, <<97, 256>> }

Sends == { None } \cup { Some(Value_String(v)) : v \in Payloads }

ReceiveCounts ==
  { None, Some(Value_Int(I64(0))), Some(Value_Int(I64(2))), Some(Value_Int(I64(-2))), Some(Value_Int(I64_MIN)) }

Named(t, s, r) ==
  ("timeout" :> t) @@ ("send" :> s) @@ ("receive-byte-count" :> r)

\* Calls of the command `port scan` of port_scan.rs (flags -t, -s, -b).
Calls ==
  { [positional |-> ps, named |-> Named(t, s, r)] :
      ps \in Positionals, t \in Timeouts, s \in Sends, r \in ReceiveCounts }

\* Calls of the command of main.rs, whose signature has the flag -t only.
PluginCalls ==
  { [positional |-> ps, named |-> Named(t, None, None)] :
      ps \in Positionals, t \in Timeouts }

----------------------------------------------------------------------------
(* State.                                                                  *)

VARIABLES
  cmd,            \* "PortScan" (port_scan.rs) or "Plugin" (main.rs)
  call,           \* the EvaluatedCall
  pc,             \* the handler's position
  real_target,    \* run: the host string
  real_port,      \* run: the port, an i64
  address,        \* run: the parsed SocketAddr
  duration,       \* scan: the timeout, u64 nanoseconds
  send_data,      \* scan: Option<Vec<u8>>
  receive_count,  \* scan: u64
  is_open,        \* check_connection's return value
  conn,           \* the connect attempt: "none", "ok", "failed"
  deadline,       \* the timeout the connect attempt was given (an Option)
  wire,           \* the bytes written to the connection
  write_status,   \* write_all: "none", "ok", "err"
  reads,          \* the number of read calls made on the connection
  got,            \* the number of bytes collected by the read step
  read_end,       \* how the read step ended: "none", "count", "eof", "err", "timeout"
  t_connect,      \* nanoseconds spent in connect_timeout (u128)
  t_write,        \* nanoseconds spent in write_all (u128)
  t_read,         \* nanoseconds spent in read calls (u128)
  result          \* what run returned: none yet, an error, a record, a panic

vars == << cmd, call, pc, real_target, real_port, address, duration, send_data,
           receive_count, is_open, conn, deadline, wire, write_status, reads, got,
           read_end, t_connect, t_write, t_read, result >>

locals == << real_target, real_port, address, duration, send_data, receive_count >>
net    == << conn, deadline, wire, write_status, reads, got, read_end >>
times  == << t_connect, t_write, t_read >>

NoResult == [kind |-> "none"]
Err(label) == [kind |-> "error", label |-> label]
Panic(msg) == [kind |-> "panic", msg |-> msg]

Init ==
  /\ cmd \in {"PortScan", "Plugin"}
  /\ call \in (IF cmd = "PortScan" THEN Calls ELSE PluginCalls)
  /\ pc = "run"
  /\ real_target = <<>>
  /\ real_port = Zero(W64)
  /\ address = NoAddr
  /\ duration = Zero(W64)
  /\ send_data = None
  /\ receive_count = Zero(W64)
  /\ is_open = FALSE
  /\ conn = "none"
  /\ deadline = None
  /\ wire = <<>>
  /\ write_status = "none"
  /\ reads = 0
  /\ got = 0
  /\ read_end = "none"
  /\ t_connect = Zero(W128)
  /\ t_write = Zero(W128)
  /\ t_read = Zero(W128)
  /\ result = NoResult

----------------------------------------------------------------------------
(* The network: what a blocking socket call can come back with.            *)

\* How long a call that completes before its deadline d may have blocked:
\* not at all, or until just before the deadline.
Delays(d) == { Zero(W64), Sub(d, Lift(1, W64)) }

\* TcpStream::connect_timeout(addr, d): Err(InvalidInput) at once for a zero
\* duration; otherwise connected or refused before the deadline, or the
\* deadline expires.
ConnectOutcomes(d) ==
  IF d = Zero(W64) THEN { [ok |-> FALSE, wait |-> Zero(W64)] }
  ELSE { [ok |-> b, wait |-> w] : b \in BOOLEAN, w \in Delays(d) }
         \cup { [ok |-> FALSE, wait |-> d] }

\* stream.write_all(data): every byte written (at once, or after blocking:
\* the call has no deadline of its own), or an error after a proper prefix.
\* Writing no bytes makes no system call and succeeds.
WriteOutcomes(data, d) ==
  IF data = <<>> THEN { [ok |-> TRUE, n |-> 0, wait |-> Zero(W64)] }
  ELSE { [ok |-> TRUE, n |-> Len(data), wait |-> w] : w \in { Zero(W64), d } }
         \cup { [ok |-> FALSE, n |-> k, wait |-> Zero(W64)] : k \in 0..(Len(data) - 1) }

\* One read call of one byte under the read timeout d, the peer having
\* delivered g bytes so far: a byte, end of stream, an I/O error (reset),
\* each before the deadline, or the deadline expires (WouldBlock/TimedOut).
ReadOutcomes(d, g) ==
  { [kind |-> k, wait |-> w] :
      k \in (IF g < MaxPeerBytes THEN {"byte"} ELSE {}) \cup {"eof", "err"},
      w \in Delays(d) }
    \cup { [kind |-> "timeout", wait |-> d] }

----------------------------------------------------------------------------
(* port_scan.rs: PortScan::run, scan, check_connection.                    *)

\* PortScan::extract_params
extract_params(c) ==
  IF ~req(c, 0).some THEN [ok |-> FALSE, param_name |-> "target IP"]
  ELSE IF ~req(c, 1).some THEN [ok |-> FALSE, param_name |-> "target Port"]
  ELSE [ok |-> TRUE, target |-> req(c, 0).val, port |-> req(c, 1).val]

\* A variant of resolve that falls back to a name lookup when the literal
\* does not parse (the lookup answering with some address).
resolve_with_lookup(host, port) ==
  IF parse_SocketAddr(host \o <<":">> \o IntToString(port)).kind /= "None"
  THEN parse_SocketAddr(host \o <<":">> \o IntToString(port))
  ELSE [kind |-> "V4", ip |-> <<127, 0, 0, 1>>, port |-> 0]

\* format!("{}:{}", real_target, real_port).parse::<SocketAddr>()
resolve(host, port) == parse_SocketAddr(host \o <<":">> \o IntToString(port))

\* run, up to the call of scan: the parameters and the address.
PortScan_run ==
  /\ cmd = "PortScan"
  /\ pc = "run"
  /\ LET p == extract_params(call)
     IN  IF ~p.ok
         THEN /\ result' = Err("MissingParameter")
              /\ pc' = "done"
              /\ UNCHANGED << real_target, real_port, address >>
         ELSE IF ~as_str(p.target).some
         THEN /\ result' = Err("Target Address error")
              /\ pc' = "done"
              /\ UNCHANGED << real_target, real_port, address >>
         ELSE IF ~as_int(p.port).some
         THEN /\ result' = Err("Target Port error")
              /\ pc' = "done"
              /\ real_target' = as_str(p.target).val
              /\ UNCHANGED << real_port, address >>
         ELSE /\ real_target' = as_str(p.target).val
              /\ real_port' = as_int(p.port).val
              /\ address' = resolve(real_target', real_port')
              /\ IF address'.kind = "None"
                 THEN result' = Err("Address parser exception") /\ pc' = "done"
                 ELSE result' = result /\ pc' = "scan"
  /\ UNCHANGED << cmd, call, duration, send_data, receive_count, is_open >>
  /\ UNCHANGED << net, times >>

\* scan: `let timeout: i64 = match call.get_flag_value("timeout") ...`
scan_timeout(c) ==
  LET f == get_flag_value(c, "timeout")
  IN  IF f.some /\ as_duration(f.val).some THEN as_duration(f.val).val
      ELSE DEFAULT_TIMEOUT

\* A variant of scan_duration that converts with `timeout as u64`.
scan_duration_cast(c) == AsU64(scan_timeout(c))

\* scan: Duration::from_nanos(timeout.unsigned_abs())
scan_duration(c) == unsigned_abs(scan_timeout(c))

\* One character of the payload converted by `i as u8`.
char_as_u8(cp) == cp % 256

\* scan: `val.chars().map(|i| i as u8).collect()` for a string flag.
scan_send_data(c) ==
  LET f == get_flag_value(c, "send")
  IN  IF f.some /\ f.val.type = "String"
      THEN Some([i \in 1..Len(f.val.val) |-> char_as_u8(f.val.val[i])])
      ELSE None

\* A variant of scan_receive_count that takes a negative count for 0.
scan_receive_count_clamped(c) ==
  LET f == get_flag_value(c, "receive-byte-count")
  IN  IF f.some /\ f.val.type = "Int" /\ ~is_negative(f.val.val) THEN f.val.val
      ELSE Zero(W64)

\* scan: `val.unsigned_abs()` for an integer flag, else 0.
scan_receive_count(c) ==
  LET f == get_flag_value(c, "receive-byte-count")
  IN  IF f.some /\ f.val.type = "Int" THEN unsigned_abs(f.val.val)
      ELSE Zero(W64)

\* scan, up to the call of check_connection (the timer starts here).
PortScan_scan ==
  /\ cmd = "PortScan"
  /\ pc = "scan"
  /\ duration' = scan_duration(call)
  /\ send_data' = scan_send_data(call)
  /\ receive_count' = scan_receive_count(call)
  /\ pc' = "connect"
  /\ UNCHANGED << cmd, call, real_target, real_port, address, is_open, result >>
  /\ UNCHANGED << net, times >>

\* check_connection: `match TcpStream::connect_timeout(&address, duration)`
connect_timeout ==
  /\ cmd = "PortScan"
  /\ pc = "connect"
  /\ \E o \in ConnectOutcomes(duration) :
       /\ t_connect' = Widen(o.wait, W128)
       /\ deadline' = Some(duration)
       /\ IF o.ok
          THEN conn' = "ok" /\ pc' = "write" /\ is_open' = is_open
          ELSE conn' = "failed" /\ pc' = "return" /\ is_open' = FALSE
  /\ UNCHANGED << cmd, call, locals, result >>
  /\ UNCHANGED << wire, write_status, reads, got, read_end, t_write, t_read >>

\* A variant of write_all that goes on to the read step after a write error.
write_all_ignoring_error ==
  /\ cmd = "PortScan"
  /\ pc = "write"
  /\ IF ~send_data.some
     THEN UNCHANGED << wire, write_status, t_write >>
     ELSE \E o \in WriteOutcomes(send_data.val, duration) :
            /\ wire' = SubSeq(send_data.val, 1, o.n)
            /\ t_write' = Widen(o.wait, W128)
            /\ write_status' = IF o.ok THEN "ok" ELSE "err"
  /\ pc' = "set_read_timeout"
  /\ UNCHANGED << cmd, call, locals, is_open, result >>
  /\ UNCHANGED << conn, deadline, reads, got, read_end, t_connect, t_read >>

\* check_connection: `if let Some(data) = send_data { stream.write_all(&data) ... }`
write_all ==
  /\ cmd = "PortScan"
  /\ pc = "write"
  /\ IF ~send_data.some
     THEN /\ pc' = "set_read_timeout"
          /\ UNCHANGED << wire, write_status, t_write, is_open >>
     ELSE \E o \in WriteOutcomes(send_data.val, duration) :
            /\ wire' = SubSeq(send_data.val, 1, o.n)
            /\ t_write' = Widen(o.wait, W128)
            /\ IF o.ok
               THEN write_status' = "ok" /\ pc' = "set_read_timeout" /\ is_open' = is_open
               ELSE write_status' = "err" /\ pc' = "return" /\ is_open' = FALSE
  /\ UNCHANGED << cmd, call, locals, result >>
  /\ UNCHANGED << conn, deadline, reads, got, read_end, t_connect, t_read >>

\* check_connection: stream.set_read_timeout(Some(duration)), which is an
\* error for a zero duration, then the branch on receive_byte_count.
set_read_timeout ==
  /\ cmd = "PortScan"
  /\ pc = "set_read_timeout"
  /\ IF duration = Zero(W64)
     THEN pc' = "return" /\ is_open' = FALSE
     ELSE IF receive_count /= Zero(W64)
     THEN pc' = "read" /\ is_open' = is_open
     ELSE pc' = "return" /\ is_open' = TRUE
  /\ UNCHANGED << cmd, call, locals, result >>
  /\ UNCHANGED << net, times >>

\* The value of `match buffer { Ok(_) => true, Err(err) => false }` when the
\* collect ended the given way: Bytes::next is None at end of stream, so the
\* collected Result is Ok both when the count is reached and at end of stream.
collect_result(end) == end \in {"count", "eof"}

\* check_connection: one step of
\* `stream.bytes().take(receive_byte_count as usize).collect()`,
\* and the match on its result when it was the last one.
read ==
  /\ cmd = "PortScan"
  /\ pc = "read"
  /\ \E o \in ReadOutcomes(duration, got) :
       LET end == IF o.kind = "byte"
                  THEN IF Lift(got + 1, W64) = receive_count THEN "count" ELSE "none"
                  ELSE o.kind
       IN  /\ reads' = reads + 1
           /\ t_read' = Add(t_read, Widen(o.wait, W128))
           /\ got' = IF o.kind = "byte" THEN got + 1 ELSE got
           /\ read_end' = end
           /\ IF end = "none"
              THEN pc' = "read" /\ is_open' = is_open
              ELSE pc' = "return" /\ is_open' = collect_result(end)
  /\ UNCHANGED << cmd, call, locals, result >>
  /\ UNCHANGED << conn, deadline, wire, write_status, t_connect, t_write >>

\* scan: now.elapsed().as_nanos(), a u128.
elapsed_nanos == Add(Add(t_connect, t_write), t_read)

\* run: `elapsed.try_into().unwrap_or_else(|_| 0)` into an i64.
elapsed_i64(e) ==
  IF (\A i \in (W64 + 1)..W128 : e[i] = 0) /\ e[W64] < 2^15
  THEN SubSeq(e, 1, W64)
  ELSE Zero(W64)

\* A variant of assemble that reports the resolved address and port.
assemble_resolved(target, port, open, elapsed) ==
  [ kind    |-> "record",
    address |-> IF address.kind = "V4" THEN Ipv4ToString(address.ip)
                ELSE Ipv6ToString(address.ip),
    port    |-> Lift(address.port, W64),
    result  |-> IF open THEN "Open" ELSE "Closed",
    is_open |-> open,
    elapsed |-> elapsed_i64(elapsed) ]

\* run: the record built from scan's result.
assemble(target, port, open, elapsed) ==
  [ kind    |-> "record",
    address |-> target,
    port    |-> port,
    result  |-> IF open THEN "Open" ELSE "Closed",
    is_open |-> open,
    elapsed |-> elapsed_i64(elapsed) ]

\* scan returns Ok((is_open, elapsed)) and run returns the record.
PortScan_return ==
  /\ cmd = "PortScan"
  /\ pc = "return"
  /\ result' = assemble(real_target, real_port, is_open, elapsed_nanos)
  /\ pc' = "done"
  /\ UNCHANGED << cmd, call, locals, is_open >>
  /\ UNCHANGED << net, times >>

----------------------------------------------------------------------------
(* main.rs: Plugin::run, check_connection, load_address, extract_params.   *)

\* main.rs extract_params and load_address: the panic message, or "" when
\* both parameters are there and of the right type.
Plugin_params_panic(c) ==
  IF ~req(c, 0).some THEN "Given value for target is not correct"
  ELSE IF ~req(c, 1).some THEN "Given value for port is not correct"
  ELSE IF ~as_str(req(c, 0).val).some THEN "Address value cannot be parsed to string"
  ELSE IF ~as_int(req(c, 1).val).some THEN "Port value cannot be parsed to integer"
  ELSE ""

\* Plugin::run: the timeout flag is a duration (else the handler panics).
Plugin_timeout_ok(c) ==
  LET f == get_flag_value(c, "timeout")
  IN  f.some => as_duration(f.val).some

\* Plugin::run: `let timeout: i64 = match call.get_flag_value("timeout") ...`
Plugin_timeout(c) ==
  LET f == get_flag_value(c, "timeout")
  IN  IF f.some THEN as_duration(f.val).val ELSE DEFAULT_TIMEOUT

\* Plugin::run: Duration::from_nanos(timeout.unsigned_abs())
Plugin_duration(c) == unsigned_abs(Plugin_timeout(c))

\* Plugin::run, up to the call of check_connection.
Plugin_run ==
  /\ cmd = "Plugin"
  /\ pc = "run"
  /\ IF Plugin_params_panic(call) /= ""
     THEN /\ result' = Panic(Plugin_params_panic(call))
          /\ pc' = "done"
          /\ UNCHANGED << real_target, real_port, duration, address >>
     ELSE /\ real_target' = as_str(req(call, 0).val).val
          /\ real_port' = as_int(req(call, 1).val).val
          /\ IF ~Plugin_timeout_ok(call)
             THEN /\ result' = Panic("Error reading duration")
                  /\ pc' = "done"
                  /\ UNCHANGED << duration, address >>
             ELSE /\ duration' = Plugin_duration(call)
                  /\ address' = resolve(real_target', real_port')
                  /\ IF address'.kind = "None"
                     THEN result' = Err("Address parser exception") /\ pc' = "done"
                     ELSE result' = result /\ pc' = "connect"
  /\ UNCHANGED << cmd, call, send_data, receive_count, is_open >>
  /\ UNCHANGED << net, times >>

\* main.rs check_connection: the connect attempt alone decides.
Plugin_check_connection ==
  /\ cmd = "Plugin"
  /\ pc = "connect"
  /\ \E o \in ConnectOutcomes(duration) :
       /\ t_connect' = Widen(o.wait, W128)
       /\ deadline' = Some(duration)
       /\ conn' = IF o.ok THEN "ok" ELSE "failed"
       /\ is_open' = o.ok
  /\ pc' = "return"
  /\ UNCHANGED << cmd, call, locals, result >>
  /\ UNCHANGED << wire, write_status, reads, got, read_end, t_write, t_read >>

\* Duration::as_millis: whole milliseconds of a nanosecond count.
as_millis(ns) == DivMod(DivMod(ns, 1000)[1], 1000)[1]

\* Plugin::run: the record of four strings.
Plugin_assemble(target, port, open, elapsed) ==
  [ kind       |-> "record",
    address    |-> target,
    port       |-> IntToString(port),
    result     |-> IF open THEN "Open" ELSE "Closed",
    elapsed_ms |-> UIntToString(as_millis(elapsed)) ]

\* Plugin::run returns the record.
Plugin_return ==
  /\ cmd = "Plugin"
  /\ pc = "return"
  /\ result' = Plugin_assemble(real_target, real_port, is_open, elapsed_nanos)
  /\ pc' = "done"
  /\ UNCHANGED << cmd, call, locals, is_open >>
  /\ UNCHANGED << net, times >>

----------------------------------------------------------------------------

Next ==
  \/ PortScan_run
  \/ PortScan_scan
  \/ connect_timeout
  \/ write_all
  \/ set_read_timeout
  \/ read
  \/ PortScan_return
  \/ Plugin_run
  \/ Plugin_check_connection
  \/ Plugin_return

Spec == Init /\ [][Next]_vars

----------------------------------------------------------------------------
(* What the claims speak of.                                               *)

\* Both positional arguments and the timeout flag have their declared types.
WellTyped ==
  /\ Len(call.positional) = 2
  /\ call.positional[1].type = "String"
  /\ call.positional[2].type = "Int"
  /\ get_flag_value(call, "timeout").some
       => get_flag_value(call, "timeout").val.type = "Duration"

\* The first positional argument is there and is a string.
HostIsString == Len(call.positional) >= 1 /\ call.positional[1].type = "String"

HostArg == call.positional[1].val
PortArg == call.positional[2].val

\* The port is in 0..65535.
PortInRange(p) == ~is_negative(p) /\ Le(p, Lift(65535, W64))

\* An IPv6 literal in square brackets, "[groups]" or "[groups%scope]".
BracketedV6(h) ==
  /\ Len(h) >= 2
  /\ h[1] = "["
  /\ h[Len(h)] = "]"
  /\ LET inner == Split(SubSeq(h, 2, Len(h) - 1), "%")
     IN  /\ read_ipv6_addr(inner[1]).some
         /\ Len(inner) <= 2
         /\ Len(inner) = 2 => read_scope_id(inner[2]).some

\* The connection was never touched: no connect, write or read.
NoConnectionAttempt ==
  conn = "none" /\ ~deadline.some /\ wire = <<>> /\ write_status = "none" /\ reads = 0

\* check_connection has returned (or run has).
Returned == pc \in {"return", "done"}

\* The UTF-8 encoding of one code point.
utf8(cp) ==
  IF cp < 128 THEN <<cp>>
  ELSE IF cp < 2048 THEN <<192 + (cp \div 64), 128 + (cp % 64)>>
  ELSE IF cp < 65536
  THEN <<224 + (cp \div 4096), 128 + ((cp \div 64) % 64), 128 + (cp % 64)>>
  ELSE <<240 + (cp \div 262144), 128 + ((cp \div 4096) % 64),
         128 + ((cp \div 64) % 64), 128 + (cp % 64)>>

\* String::as_bytes: the raw bytes of a string.
RECURSIVE as_bytes(_)
as_bytes(str) ==
  IF str = <<>> THEN <<>> ELSE utf8(Head(str)) \o as_bytes(Tail(str))

\* 60 seconds in nanoseconds.
SixtySeconds == MulAdd(MulAdd(Lift(60000, W64), 1000, 0), 1000, 0)

\* The u64 m is the magnitude of the i64 v.
IsMagnitude(m, v) ==
  IF is_negative(v) THEN Add(m, v) = Zero(W64) /\ m /= Zero(W64)
  ELSE m = v

----------------------------------------------------------------------------
(* Claims.                                                                 *)

\* C1: when N > 0 bytes are expected, the connect (and the write, if any)
\* succeeded, and the peer delivers fewer than N bytes and then closes the
\* stream, the probe classifies the target as closed.
C1_ShortReadIsClosed ==
  ( /\ cmd = "PortScan"
    /\ conn = "ok"
    /\ write_status /= "err"
    /\ read_end = "eof"
    /\ Lt(Lift(got, W64), receive_count) )
  => /\ ~is_open
     /\ result.kind = "record" => ~result.is_open

\* C2: for every host that is a valid literal IP address (IPv4 or IPv6) and
\* every port in 0..65535, the address resolution of run succeeds and the
\* resolved address's string form is "{host}:{port}".
C2_LiteralResolvesAndRoundTrips ==
  ( /\ cmd = "PortScan"
    /\ pc /= "run"
    /\ WellTyped
    /\ parse_IpAddr_ok(HostArg)
    /\ PortInRange(PortArg) )
  => /\ address.kind /= "None"
     /\ SocketAddrToString(address) = HostArg \o <<":">> \o IntToString(PortArg)

\* C3 (as stated): for every host string that is not a valid IP literal, run
\* produces no result record and never touches the network, and it ends with
\* the address error (when the arguments have their declared types).
C3_NonLiteralHostIsRejected ==
  ( HostIsString /\ ~parse_IpAddr_ok(HostArg) )
  => /\ NoConnectionAttempt
     /\ result.kind /= "record"
     /\ ( WellTyped /\ pc = "done" ) => result = Err("Address parser exception")

\* C3 (amended): for every host string that is neither a valid IP literal nor
\* an IPv6 literal in square brackets (a DNS name, say), run produces no
\* result record and never touches the network, and it ends with the address
\* error (when the arguments have their declared types).
C3_NonAddressHostIsRejected ==
  ( HostIsString /\ ~parse_IpAddr_ok(HostArg) /\ ~BracketedV6(HostArg) )
  => /\ NoConnectionAttempt
     /\ result.kind /= "record"
     /\ ( WellTyped /\ pc = "done" ) => result = Err("Address parser exception")

C3_Witness ==
  /\ WellTyped
  /\ HostArg = <<"e","x","a","m","p","l","e",".","c","o","m">>
  /\ PortInRange(PortArg)
  /\ pc = "done"
  /\ result = Err("Address parser exception")

\* C4: once the address is resolved, every failure inside the probe (connect
\* timeout or refusal, write error, short read, read deadline expiry) ends the
\* invocation with a record whose is_open is false and result is "Closed",
\* and never with an error.
C4_FailuresAreClosed ==
  ( cmd = "PortScan" /\ address.kind /= "None" /\ pc = "done" )
  => /\ result.kind = "record"
     /\ ( \/ conn = "failed"
          \/ write_status = "err"
          \/ read_end \in {"eof", "err", "timeout"} )
        => ~result.is_open /\ result.result = "Closed"

\* C5: the receive step blocks for at most one timeout window in total,
\* however many bytes are requested and however the peer paces them, so that
\* connect plus receive end within 2 x timeout.
C5_ReceiveWithinOneWindow ==
  ( cmd = "PortScan" /\ conn = "ok" )
  => /\ Le(t_read, Widen(duration, W128))
     /\ Le(Add(t_connect, t_read),
           Add(Widen(duration, W128), Widen(duration, W128)))

\* C6: the bytes written to the connection are the payload string's raw
\* bytes, unchanged in value and in number.
C6_PayloadSentVerbatim ==
  ( /\ cmd = "PortScan"
    /\ write_status = "ok"
    /\ get_flag_value(call, "send").some
    /\ get_flag_value(call, "send").val.type = "String" )
  => wire = as_bytes(get_flag_value(call, "send").val.val)

\* C7: the timeout the connect attempt is given is the magnitude of the
\* supplied timeout, for every supplied value, the most negative included,
\* and 60 seconds when none is supplied; no supplied timeout is rejected.
C7_TimeoutIsMagnitude ==
  LET f == get_flag_value(call, "timeout")
  IN  /\ ( deadline.some /\ ~f.some ) => deadline.val = SixtySeconds
      /\ ( deadline.some /\ f.some /\ f.val.type = "Duration" )
           => IsMagnitude(deadline.val, f.val.val)
      /\ ( WellTyped /\ address.kind /= "None" /\ pc = "done" )
           => deadline.some /\ result.kind = "record"

C7_Witness ==
  /\ get_flag_value(call, "timeout") = Some(Value_Duration(I64_MIN))
  /\ deadline = Some(<<0, 0, 0, 2^15>>)
  /\ pc = "done"
  /\ result.kind = "record"

\* C8: in every record run produces, result is "Open" exactly when is_open is
\* true and "Closed" exactly when it is false, and address and port are the
\* host string and the port number of the call, not the resolved form.
C8_RecordEchoesCall ==
  ( cmd = "PortScan" /\ result.kind = "record" )
  => /\ result.result = "Open" <=> result.is_open
     /\ result.result = "Closed" <=> ~result.is_open
     /\ result.is_open = is_open
     /\ result.address = HostArg
     /\ result.port = PortArg

C8_Witness ==
  /\ cmd = "PortScan"
  /\ result.kind = "record"
  /\ result.is_open
  /\ result.result = "Open"
  /\ result.address = <<"[",":",":","1","]">>
  /\ address.kind = "V6"

\* C9: the steps run in the order connect, write, read and a failure stops
\* the rest: nothing is written or read after a failed connect, nothing is
\* read after a failed write and the result is closed, and with a receive
\* count of 0 a successful connect (and write, if any) is open with no read.
C9_StepsInOrder ==
  cmd = "PortScan" =>
    /\ ( write_status /= "none" \/ wire /= <<>> \/ reads > 0 ) => conn = "ok"
    /\ ( reads > 0 /\ send_data.some ) => write_status = "ok"
    /\ conn = "failed" => ( Returned /\ ~is_open )
    /\ write_status = "err" => ( Returned /\ ~is_open /\ reads = 0 )
    /\ ( Returned /\ conn = "ok" /\ write_status /= "err"
         /\ receive_count = Zero(W64) ) => ( is_open /\ reads = 0 )
    /\ result.kind = "record" => result.is_open = is_open

C9_Witness ==
  /\ cmd = "PortScan"
  /\ write_status = "err"
  /\ receive_count /= Zero(W64)
  /\ reads = 0
  /\ result.kind = "record"
  /\ result.result = "Closed"

\* C10: a negative receive-byte-count is replaced by its magnitude: -n gates
\* the decision on reading n bytes as +n does, and only 0 or an absent flag
\* skips the read step.
C10_ReceiveCountIsMagnitude ==
  LET f == get_flag_value(call, "receive-byte-count")
  IN  ( cmd = "PortScan" /\ pc \notin {"run", "scan"} /\ address.kind /= "None" ) =>
        /\ ~f.some => receive_count = Zero(W64)
        /\ ( f.some /\ f.val.type = "Int" ) => IsMagnitude(receive_count, f.val.val)
        /\ ( Returned /\ conn = "ok" /\ write_status /= "err" )
             => ( reads = 0 <=> ( ~f.some \/ f.val.val = Zero(W64) ) )
        /\ read_end = "count" => ( Lift(got, W64) = receive_count /\ is_open )
        /\ ( reads > 0 /\ is_open ) => read_end \in {"count", "eof"}

C10_Witness ==
  /\ cmd = "PortScan"
  /\ get_flag_value(call, "receive-byte-count") = Some(Value_Int(I64(-2)))
  /\ read_end = "count"
  /\ got = 2
  /\ result.kind = "record"
  /\ result.is_open

====
